---- MODULE Spec2Model ----
(***************************************************************************)
(* Model of influxv2tovm.py: InfluxMigrator (discovery, offset-paginated   *)
(* chunk reads, line-protocol encoding, batched HTTP writes), Stats and    *)
(* main().  Text is a sequence of one-character strings, so that join,     *)
(* split, count and replace are computed as the Python code computes them. *)
(***************************************************************************)
EXTENDS Integers, Sequences, FiniteSets, TLC

(***************************************************************************)
(* Bounds of the model.                                                    *)
(***************************************************************************)
\* rows the source bucket may hold, over all its series
MaxRows == 2
\* tables one query result (a list of data frames) may hold
MaxTables == 2
\* the chunksize given to InfluxMigrator(...) (main passes 5000), scaled
ChunkSize == 2
\* the chunk_size migrate() passes to __send_lines_in_chunks (10000), scaled
SendChunkSize == 1
\* values of the grouping-key column in one discovery table
MaxKeyVals == 1
\* lines of a text handed to __send_lines_in_chunks on its own
MaxSendLines == 5
\* chunk_size values __send_lines_in_chunks is tried with on its own
MaxSendChunk == 3

(***************************************************************************)
(* Python str helpers over sequences of characters.                        *)
(***************************************************************************)
NL == "\n"
BS == "\\"

Min(a, b) == IF a < b THEN a ELSE b

RECURSIVE Join(_, _)
\* sep.join(parts)
Join(sep, parts) ==
    IF parts = <<>> THEN <<>>
    ELSE IF Len(parts) = 1 THEN Head(parts)
    ELSE Head(parts) \o sep \o Join(sep, Tail(parts))

\* s.split(c) for a one-character separator: the pieces between the
\* occurrences of c, so that "".split(c) is [""]
Split(s, c) ==
    LET at == {i \in 1..Len(s) : s[i] = c}
        n == Cardinality(at)
        \* the position of the k-th occurrence of c; 0 and Len(s) + 1 at the ends
        Pos(k) == IF k = 0 THEN 0
                  ELSE IF k = n + 1 THEN Len(s) + 1
                  ELSE CHOOSE i \in at : Cardinality({j \in at : j < i}) = k - 1
    IN  [k \in 1..(n + 1) |-> SubSeq(s, Pos(k - 1) + 1, Pos(k) - 1)]

\* s.count(c)
Count(s, c) == Cardinality({i \in 1..Len(s) : s[i] = c})

RECURSIVE Replace(_, _, _)
\* s.replace(c, new) for a one-character c
Replace(s, c, new) ==
    IF s = <<>> THEN <<>>
    ELSE (IF Head(s) = c THEN new ELSE <<Head(s)>>) \o Replace(Tail(s), c, new)

Whitespace == {" ", NL, "\r", "\t"}

RECURSIVE LStrip(_)
LStrip(s) ==
    IF s # <<>> /\ Head(s) \in Whitespace THEN LStrip(Tail(s)) ELSE s

RECURSIVE RStrip(_)
RStrip(s) ==
    IF s # <<>> /\ s[Len(s)] \in Whitespace
    THEN RStrip(SubSeq(s, 1, Len(s) - 1)) ELSE s

\* s.strip()
Strip(s) == RStrip(LStrip(s))

LowerChar(c) == IF c = "N" THEN "n" ELSE IF c = "A" THEN "a" ELSE c

\* s.lower(), over the letters the model's alphabet holds
Lower(s) == [i \in 1..Len(s) |-> LowerChar(s[i])]

\* len(s.encode("utf8")): the model's alphabet is ASCII, one byte a character
Utf8Len(s) == Len(s)

\* lines[i:j], Python's slice of a list (indices from 0, end clipped)
Slice(lines, i, j) == SubSeq(lines, i + 1, Min(j, Len(lines)))

RECURSIVE Range(_, _, _)
\* list(range(a, b, step)), step > 0
Range(a, b, step) ==
    IF a >= b THEN <<>> ELSE <<a>> \o Range(a + step, b, step)

Digit(d) == <<"0", "1", "2", "3", "4", "5", "6", "7", "8", "9">>[d + 1]

RECURSIVE IntStr(_)
\* str(n) for n >= 0
IntStr(n) == IF n < 10 THEN <<Digit(n)>> ELSE IntStr(n \div 10) \o <<Digit(n % 10)>>

(***************************************************************************)
(* Data frames.  A value is [t, v]: t its type ("null", "str", "bool",     *)
(* "num", "time") and v the characters of str(value); a time's v is the    *)
(* digits of its epoch seconds.  A data frame is [columns, rows]: the      *)
(* column names in order and one function column -> value per row.         *)
(***************************************************************************)
COL_RESULT == <<"r", "e", "s", "u", "l", "t">>
COL_TABLE == <<"t", "a", "b", "l", "e">>
COL_TIME == <<"_", "t", "i", "m", "e">>
COL_VALUE == <<"_", "v", "a", "l", "u", "e">>
COL_FIELD == <<"_", "f", "i", "e", "l", "d">>
COL_MEASUREMENT == <<"_", "m", "e", "a", "s", "u", "r", "e", "m", "e", "n", "t">>
COL_DOMAIN == <<"d", "o", "m", "a", "i", "n">>
COL_ENTITY_ID == <<"e", "n", "t", "i", "t", "y", "_", "i", "d">>
UNIT_OF_MEASUREMENT ==
    <<"u", "n", "i", "t", "_", "o", "f", "_">> \o Tail(COL_MEASUREMENT)

NullVal == [t |-> "null", v |-> <<>>]
StrVal(s) == [t |-> "str", v |-> s]
NumVal(s) == [t |-> "num", v |-> s]
BoolVal(b) == [t |-> "bool", v |-> IF b THEN <<"T", "r", "u", "e">>
                                        ELSE <<"F", "a", "l", "s", "e">>]
TimeVal(secs) == [t |-> "time", v |-> IntStr(secs)]

\* pd.isna(x)
IsNa(x) == x.t = "null"

\* str(x); a missing value prints as nan
StrOf(x) == IF IsNa(x) THEN <<"n", "a", "n">> ELSE x.v

\* x == ""
IsEmptyStr(x) == x.t = "str" /\ x.v = <<>>

\* variant of Empty: a table of fewer rows than the limit counts as empty
EmptyOrShort(df) == Len(df.rows) < ChunkSize

\* df.empty
Empty(df) == df.rows = <<>>

\* the grouping key chosen in __init__
MeasurementKey(pivot_) == IF pivot_ THEN COL_ENTITY_ID ELSE COL_MEASUREMENT

IsTagCol(k) == ~(k # <<>> /\ Head(k) = "_") /\ k \notin {COL_RESULT, COL_TABLE}

\* __get_tag_cols: the columns not starting with "_" and not result / table
GetTagCols(dataframe_keys) == SelectSeq(dataframe_keys, IsTagCol)

\* escape_influx_string
EscapeInfluxString(x) ==
    Replace(Replace(Replace(x, "\"", <<BS, "\"">>), NL, <<BS, "n">>),
            "\r", <<BS, "r">>)

\* an escaping that forgets the equals sign
EscapeTagNoEquals(x) ==
    Replace(Replace(x, " ", <<BS, " ">>), ",", <<BS, ",">>)

\* the escaping of tag keys, tag values and field keys
EscapeTag(x) ==
    Replace(Replace(Replace(x, " ", <<BS, " ">>), ",", <<BS, ",">>),
            "=", <<BS, "=">>)

\* the tag loop passes over the column: pd.isna(val) or val == "", or the
\* stripped text is empty or "nan"
TagSkipped(row, col_name) ==
    LET val == row[col_name]
        sval == Strip(StrOf(val))
    IN  \/ IsNa(val) \/ IsEmptyStr(val)
        \/ sval = <<>> \/ Lower(sval) = <<"n", "a", "n">>

\* esc_key and esc_val of a column the tag loop keeps
EscKey(col_name) == EscapeTag(col_name)
EscVal(val) == EscapeTag(Strip(StrOf(val)))

\* one tag column of one row: no tag, or <<key=value>>
TagOf(row, col_name) ==
    IF TagSkipped(row, col_name) THEN <<>>
    ELSE << EscKey(col_name) \o <<"=">> \o EscVal(row[col_name]) >>

RECURSIVE TagsOf(_, _)
TagsOf(row, cols) ==
    IF cols = <<>> THEN <<>> ELSE TagOf(row, Head(cols)) \o TagsOf(row, Tail(cols))

\* the unit_of_measurement tag of pivot mode
UomTag(row) ==
    LET uom == row[COL_MEASUREMENT]
    IN  IF ~IsNa(uom) /\ Strip(StrOf(uom)) # <<>>
        THEN << UNIT_OF_MEASUREMENT \o <<"=">> \o EscapeTag(StrOf(uom)) >>
        ELSE <<>>

\* int(pd.to_datetime(t).timestamp() * 1e9) printed, for whole seconds
Nanos(t) ==
    IF t.v = <<"0">> THEN t.v
    ELSE t.v \o <<"0", "0", "0", "0", "0", "0", "0", "0", "0">>

FieldValue(x) ==
    IF x.t = "str" THEN <<"\"">> \o EscapeInfluxString(x.v) \o <<"\"">>
    ELSE IF x.t = "bool"
         THEN (IF x.v = BoolVal(TRUE).v THEN <<"t", "r", "u", "e">>
                                        ELSE <<"f", "a", "l", "s", "e">>)
    ELSE StrOf(x)

\* one pass of the row loop: the lines the row appends (none when dropped)
RowLines(df, row, pivot_) ==
    LET measurement ==
            IF pivot_
            THEN StrOf(row[COL_DOMAIN]) \o <<".">> \o StrOf(row[COL_ENTITY_ID])
            ELSE StrOf(row[COL_MEASUREMENT])
        tags == TagsOf(row, GetTagCols(df.columns))
                \o (IF pivot_ THEN UomTag(row) ELSE <<>>)
        tag_str == IF tags # <<>> THEN <<",">> \o Join(<<",">>, tags) ELSE <<>>
        field_val_raw == row[COL_VALUE]
    IN  IF IsNa(field_val_raw) \/ IsEmptyStr(field_val_raw) THEN <<>>
        ELSE << measurement \o tag_str \o <<" ">> \o EscapeTag(row[COL_FIELD].v)
                \o <<"=">> \o FieldValue(field_val_raw) \o <<" ">>
                \o Nanos(row[COL_TIME]) >>

RECURSIVE LinesOf(_, _, _)
LinesOf(df, rows, pivot_) ==
    IF rows = <<>> THEN <<>>
    ELSE RowLines(df, Head(rows), pivot_) \o LinesOf(df, Tail(rows), pivot_)

\* __get_influxdb_lines
GetInfluxdbLines(df, pivot_) ==
    IF Empty(df) THEN <<>> ELSE Join(<<NL>>, LinesOf(df, df.rows, pivot_))

(***************************************************************************)
(* Stats.                                                                  *)
(***************************************************************************)
\* variant of Increment: the lines are counted as the line feeds of the text
IncrementNewlines(st, lines_str) ==
    LET no == IF lines_str # <<>> THEN Count(lines_str, NL) ELSE 0
        new_bytes == IF lines_str # <<>> THEN Utf8Len(lines_str) ELSE 0
    IN  [bytes |-> st.bytes + new_bytes, lines |-> st.lines + no]

\* Stats.increment
Increment(st, lines_str) ==
    LET no == IF lines_str # <<>> THEN Count(lines_str, NL) + 1 ELSE 0
        new_bytes == IF lines_str # <<>> THEN Utf8Len(lines_str) ELSE 0
    IN  [bytes |-> st.bytes + new_bytes, lines |-> st.lines + no]

(***************************************************************************)
(* The source bucket, as the query collaborator serves it.  A series holds *)
(* rows 1..N; a chunk query at offset o returns tables of consecutive rows *)
(* from row o + 1 on, each table named by its row numbers.                 *)
(***************************************************************************)
SeriesNames == {<<"a">>, <<"b">>}

SourceColumns(pivot_) ==
    <<COL_RESULT, COL_TABLE, COL_TIME, COL_VALUE, COL_FIELD, COL_MEASUREMENT>>
    \o (IF pivot_ THEN <<COL_DOMAIN, COL_ENTITY_ID>> ELSE <<>>)

ColSet(columns) == {columns[i] : i \in 1..Len(columns)}

\* row number n of series m, whose field value is val
SourceRow(m, n, val, pivot_) ==
    [c \in ColSet(SourceColumns(pivot_)) |->
        IF c = COL_TIME THEN TimeVal(n)
        ELSE IF c = COL_VALUE THEN val
        ELSE IF c = COL_FIELD THEN StrVal(<<"v">>)
        ELSE IF c = COL_MEASUREMENT THEN (IF pivot_ THEN StrVal(<<"W">>) ELSE StrVal(m))
        ELSE IF c = COL_DOMAIN THEN StrVal(<<"d">>)
        ELSE IF c = COL_ENTITY_ID THEN StrVal(m)
        ELSE StrVal(<<"0">>)]

\* the data frame of the rows numbered nums
DataFrameOf(m, nums, values, pivot_) ==
    [columns |-> SourceColumns(pivot_),
     rows |-> [i \in 1..Len(nums) |-> SourceRow(m, nums[i], values[nums[i]], pivot_)]]

FieldValues == {NullVal, NumVal(<<"1">>)}

SeqsUpTo(S, n) == UNION {[1..k -> S] : k \in 0..n}

RECURSIVE Sum(_)
Sum(s) == IF s = <<>> THEN 0 ELSE Head(s) + Sum(Tail(s))

\* the tables of sizes `sizes`, as consecutive row numbers after row o
RECURSIVE TablesFrom(_, _)
TablesFrom(o, sizes) ==
    IF sizes = <<>> THEN <<>>
    ELSE << [i \in 1..Head(sizes) |-> o + i] >> \o TablesFrom(o + Head(sizes), Tail(sizes))

\* what query_data_frame may return for a chunk query at offset o of a series
\* of n rows: one data frame, a list of data frames, or something else
ChunkResponses(o, n) ==
    LET left == IF o < n THEN n - o ELSE 0
    IN  {[shape |-> "other", sizes |-> <<>>]}
        \cup {[shape |-> "frame", sizes |-> <<k>>] : k \in 0..Min(ChunkSize, left)}
        \cup {[shape |-> "list", sizes |-> s] :
                s \in {t \in SeqsUpTo(0..ChunkSize, MaxTables) : Sum(t) <= left}}

\* the source served the chunk as the pagination contract expects: rows while
\* rows remain, in non-empty tables, and one empty table once none remains
WellServed(o, n, resp) ==
    /\ resp.shape # "other"
    /\ resp.sizes # <<>>
    /\ IF o < n THEN \A i \in 1..Len(resp.sizes) : resp.sizes[i] > 0
       ELSE TRUE

\* the tables a discovery query may return: their columns and the values of
\* the grouping-key column
KeyValues == {NullVal} \cup {StrVal(m) : m \in SeriesNames}

DiscoveryColumns ==
    {<<COL_TIME, COL_VALUE>>, <<COL_TIME, COL_MEASUREMENT>>,
     <<COL_TIME, COL_MEASUREMENT, COL_ENTITY_ID>>}

DiscoveryTable(columns, vals) ==
    [columns |-> columns,
     rows |-> [i \in 1..Len(vals) |-> [c \in ColSet(columns) |->
                  IF c = COL_TIME THEN TimeVal(0) ELSE vals[i]]]]

DiscoveryTables ==
    {DiscoveryTable(c, v) : c \in DiscoveryColumns, v \in SeqsUpTo(KeyValues, MaxKeyVals)}

DiscoveryResponses ==
    {[shape |-> "other", tables |-> <<>>]}
    \cup {[shape |-> "frame", tables |-> <<t>>] : t \in DiscoveryTables}
    \cup {[shape |-> "list", tables |-> ts] : ts \in SeqsUpTo(DiscoveryTables, MaxTables)}

\* the series identifiers a discovery result holds: the values, other than
\* null, of the grouping-key column of the tables that have that column
ServedKeys(tables, key) ==
    {x.v : x \in {y \in UNION {{tables[i].rows[j][key] : j \in 1..Len(tables[i].rows)} :
                                 i \in {k \in 1..Len(tables) : key \in ColSet(tables[k].columns)}} :
                  y # NullVal}}

\* df[key].dropna().unique()
Unique(df, key) ==
    {df.rows[i][key].v : i \in {j \in 1..Len(df.rows) : ~IsNa(df.rows[j][key])}}

(***************************************************************************)
(* State.                                                                  *)
(***************************************************************************)
VARIABLES
    dry_run,            \* InfluxMigrator.dry_run
    pivot,              \* InfluxMigrator.pivot
    attrs,              \* the names of the instance's attributes set so far
    client,             \* the InfluxDBClient: "none", "open" or "closed"
    pc,                 \* where the run stands
    exit_code,          \* -1 while running, else the code the process ends with
    measurements,       \* migrate: the set __find_all_measurements returned
    todo,               \* migrate: the series the for loop has still to visit
    meas,               \* migrate: the series of the current pass
    no_lines,           \* migrate: no_lines
    offset,             \* migrate: offset
    df_empty,           \* migrate: df_empty
    field_no,           \* migrate: field_no
    params,             \* migrate: params["_offset"] of the latest chunk query
    result,             \* migrate: the tables of result the for loop has still to visit
    lines_protocol_str, \* __send_lines_in_chunks: lines_protocol_str
    chunk_size,         \* __send_lines_in_chunks: chunk_size
    send_i,             \* __send_lines_in_chunks: the groups posted so far
    stats,              \* InfluxMigrator.stats
    series_rows,        \* source: the field values of the current series' rows
    rows_before,        \* source: the rows of the series visited before this one
    served_ok,          \* source: every chunk of the current series was WellServed
    qlog,               \* the current series' answered chunk queries: offset, table sizes
    handed,             \* the current series' row numbers handed to the encoder, in order
    requests,           \* the write requests of the current __send_lines_in_chunks call
    produced,           \* the lines the encoder produced in this run
    posted,             \* the lines some write request carried
    accepted,           \* the lines some write request answered 204 carried
    n_posts,            \* write requests issued in this run
    n_posted_lines,     \* lines carried by the write requests of this run
    n_printed_lines,    \* lines printed by the dry run
    post_errors,        \* "Erreur POST VM" messages printed
    skipped_tables,     \* "Colonne absente" warnings printed
    disc_queries,       \* discovery queries issued
    disc_other,         \* source: the discovery result was neither a table nor a list
    served_keys,        \* source: the series identifiers the discovery result held
    chunk_queried,      \* a chunk query was issued in this run
    all_done,           \* "All done" was printed
    shown_done,         \* the line counts the last progress message of each ended series showed, summed
    df_arg,             \* __get_influxdb_lines called on its own: its argument df
    esc_key,            \* __get_influxdb_lines: esc_key after the last row's tag loop
    esc_val,            \* __get_influxdb_lines: esc_val after the last row's tag loop
    start_date,         \* migrate: start_date, a day number (NoDate for None)
    end_date,           \* migrate: end_date, a day number (NoDate for None)
    now,                \* the source's clock: the instant now() of the coming query
    date_range,         \* migrate: date_range of the latest pass of the while loop
    ranges              \* the time ranges the chunk queries were evaluated on

config == <<dry_run, pivot>>
object == <<attrs, client>>
control == <<pc, exit_code>>
loopv == <<measurements, todo, meas, no_lines, offset, df_empty, field_no, params, result>>
sendv == <<lines_protocol_str, chunk_size, send_i, requests>>
source == <<series_rows, rows_before, served_ok, qlog, handed>>
delivery == <<produced, posted, accepted, n_posts, n_posted_lines>>
console == <<n_printed_lines, post_errors, skipped_tables, all_done>>
queries == <<disc_queries, disc_other, served_keys, chunk_queried>>
encv == <<df_arg, esc_key, esc_val>>
rangev == <<start_date, end_date, now, date_range, ranges>>

vars == <<config, object, control, loopv, sendv, stats, source, delivery, console, queries,
          shown_done, encv, rangev>>

\* no data frame, no date
NoFrame == [columns |-> <<>>, rows |-> <<>>]
NoDate == 0
NoTerm == [k |-> "none", n |-> 0]

\* the encoder is not called on its own
EncIdle ==
    /\ df_arg = NoFrame
    /\ esc_key = <<>>
    /\ esc_val = <<>>

\* no date range is followed
RangeIdle ==
    /\ start_date = NoDate
    /\ end_date = NoDate
    /\ now = 0
    /\ date_range = [start |-> NoTerm, stop |-> NoTerm]
    /\ ranges = {}

CLIENT_ATTR == "_InfluxMigrator__client"
QUERY_API_ATTR == "_InfluxMigrator__query_api"

\* InfluxMigrator.__init__ (and Stats' class attributes)
Init ==
    /\ dry_run \in BOOLEAN
    /\ pivot \in BOOLEAN
    /\ attrs = {"bucket", "vm_url", "chunksize", "stats", "dry_run", "pivot",
                "_InfluxMigrator__measurement_key"}
    /\ client = "none"
    /\ pc = "new"
    /\ exit_code = -1
    /\ measurements = {}
    /\ todo = {}
    /\ meas = <<>>
    /\ no_lines = 0
    /\ offset = 0
    /\ df_empty = FALSE
    /\ field_no = 0
    /\ params = 0
    /\ result = <<>>
    /\ lines_protocol_str = <<>>
    /\ chunk_size = 0
    /\ send_i = 0
    /\ stats = [bytes |-> 0, lines |-> 0]
    /\ series_rows = <<>>
    /\ rows_before = 0
    /\ served_ok = TRUE
    /\ qlog = <<>>
    /\ handed = <<>>
    /\ requests = <<>>
    /\ produced = {}
    /\ posted = {}
    /\ accepted = {}
    /\ n_posts = 0
    /\ n_posted_lines = 0
    /\ n_printed_lines = 0
    /\ post_errors = 0
    /\ skipped_tables = 0
    /\ disc_queries = 0
    /\ disc_other = FALSE
    /\ served_keys = {}
    /\ chunk_queried = FALSE
    /\ all_done = FALSE
    /\ shown_done = 0
    /\ EncIdle
    /\ RangeIdle

\* an uncaught exception, or exit(code): the process is about to end
Exits(code) ==
    /\ pc' = "exit"
    /\ exit_code' = code

\* influx_connect, called by main
InfluxConnect ==
    /\ pc = "new"
    /\ attrs' = attrs \cup {CLIENT_ATTR, QUERY_API_ATTR}
    /\ client' = "open"
    /\ pc' = "connected"
    /\ UNCHANGED <<config, encv, rangev, shown_done, exit_code, loopv, sendv, stats, source, delivery, console, queries>>

\* main: the parsing of --start and --end, exit(1) on a malformed date
ParseDates ==
    /\ pc = "connected"
    /\ \E malformed \in BOOLEAN :
          IF malformed THEN Exits(1) ELSE pc' = "ready" /\ UNCHANGED exit_code
    /\ UNCHANGED <<config, encv, rangev, shown_done, object, loopv, sendv, stats, source, delivery, console, queries>>

\* variant of HasQueryApi: the attribute can always be read
HasQueryApiAlways(a) == TRUE

\* self.__query_api can be read: the attribute is set on the instance (the
\* class body only annotates it)
HasQueryApi(a) == QUERY_API_ATTR \in a

\* migrate is called, by main after the dates or by a caller that never connected
Migrate ==
    /\ pc \in {"new", "ready"}
    /\ IF HasQueryApi(attrs) THEN pc' = "discover" /\ UNCHANGED exit_code
       ELSE Exits(1)
    /\ UNCHANGED <<config, encv, rangev, shown_done, object, loopv, sendv, stats, source, delivery, console, queries>>

\* variant of DiscoveryFatal: no result type ends the run
DiscoveryFatalNever(shape) == FALSE

\* the result is neither a DataFrame nor a list
DiscoveryFatal(shape) == shape \notin {"frame", "list"}

RECURSIVE KeysOf(_, _)
\* the loop over timeseries: the values of the key column of every table that has it
KeysOf(tables, key) ==
    IF tables = <<>> THEN {}
    ELSE (IF key \in ColSet(Head(tables).columns) THEN Unique(Head(tables), key) ELSE {})
         \cup KeysOf(Tail(tables), key)

Lacking(tables, key) ==
    Cardinality({i \in 1..Len(tables) : key \notin ColSet(tables[i].columns)})

\* __find_all_measurements, and the start of migrate's for loop
FindAllMeasurements ==
    /\ pc = "discover"
    /\ disc_queries' = disc_queries + 1
    /\ \E resp \in DiscoveryResponses :
          /\ disc_other' = (resp.shape = "other")
          /\ served_keys' = ServedKeys(resp.tables, MeasurementKey(pivot))
          /\ IF DiscoveryFatal(resp.shape)
             THEN /\ Exits(500)
                  /\ UNCHANGED <<loopv, skipped_tables>>
             ELSE /\ measurements' = KeysOf(resp.tables, MeasurementKey(pivot))
                  /\ todo' = measurements'
                  /\ skipped_tables' = Lacking(resp.tables, MeasurementKey(pivot))
                  /\ field_no' = 1
                  /\ pc' = "loop"
                  /\ UNCHANGED <<exit_code, meas, no_lines, offset, df_empty, params, result>>
    /\ UNCHANGED <<config, encv, rangev, shown_done, object, sendv, stats, source, delivery,
                   n_printed_lines, post_errors, all_done, chunk_queried>>

\* variant of NextSeries: the statistics start again with each series
NextSeriesResetStats ==
    /\ pc = "loop"
    /\ todo # {}
    /\ rows_before' = rows_before + Len(series_rows)
    /\ \E m \in todo, rows \in SeqsUpTo(FieldValues, MaxRows - (rows_before + Len(series_rows))) :
          /\ meas' = m
          /\ todo' = todo \ {m}
          /\ series_rows' = rows
    /\ no_lines' = 0
    /\ offset' = 0
    /\ stats' = [bytes |-> 0, lines |-> 0]
    /\ df_empty' = FALSE
    /\ served_ok' = TRUE
    /\ qlog' = <<>>
    /\ handed' = <<>>
    /\ pc' = "while"
    /\ UNCHANGED <<config, encv, rangev, shown_done, object, exit_code, measurements, field_no, params, result,
                   sendv, delivery, console, queries>>

\* variant of NextSeries: the offset goes on from the previous series
NextSeriesKeepOffset ==
    /\ pc = "loop"
    /\ todo # {}
    /\ rows_before' = rows_before + Len(series_rows)
    /\ \E m \in todo, rows \in SeqsUpTo(FieldValues, MaxRows - (rows_before + Len(series_rows))) :
          /\ meas' = m
          /\ todo' = todo \ {m}
          /\ series_rows' = rows
    /\ no_lines' = 0
    /\ offset' = offset
    /\ df_empty' = FALSE
    /\ served_ok' = TRUE
    /\ qlog' = <<>>
    /\ handed' = <<>>
    /\ pc' = "while"
    /\ UNCHANGED <<config, encv, rangev, shown_done, object, exit_code, measurements, field_no, params, result,
                   sendv, stats, delivery, console, queries>>

\* migrate's for loop: the next series, with the rows the source holds for it
NextSeries ==
    /\ pc = "loop"
    /\ todo # {}
    /\ rows_before' = rows_before + Len(series_rows)
    /\ \E m \in todo, rows \in SeqsUpTo(FieldValues, MaxRows - (rows_before + Len(series_rows))) :
          /\ meas' = m
          /\ todo' = todo \ {m}
          /\ series_rows' = rows
    /\ no_lines' = 0
    /\ offset' = 0
    /\ df_empty' = FALSE
    /\ served_ok' = TRUE
    /\ qlog' = <<>>
    /\ handed' = <<>>
    /\ pc' = "while"
    /\ UNCHANGED <<config, encv, rangev, shown_done, object, exit_code, measurements, field_no, params, result,
                   sendv, stats, delivery, console, queries>>

\* variant of AllDone: an empty set of series is an error
AllDoneUnlessEmpty ==
    /\ pc = "loop"
    /\ todo = {}
    /\ IF measurements = {} THEN Exits(1) /\ UNCHANGED all_done
       ELSE Exits(0) /\ all_done' = TRUE
    /\ UNCHANGED <<config, encv, rangev, shown_done, object, loopv, sendv, stats, source, delivery,
                   n_printed_lines, post_errors, skipped_tables, queries>>

\* migrate's for loop is exhausted: print "All done", return, main returns
AllDone ==
    /\ pc = "loop"
    /\ todo = {}
    /\ all_done' = TRUE
    /\ Exits(0)
    /\ UNCHANGED <<config, encv, rangev, shown_done, object, loopv, sendv, stats, source, delivery,
                   n_printed_lines, post_errors, skipped_tables, queries>>

\* the while loop ends: field_no += 1
EndSeries ==
    /\ pc = "while"
    /\ df_empty
    /\ field_no' = field_no + 1
    /\ shown_done' = shown_done + no_lines
    /\ pc' = "loop"
    /\ UNCHANGED <<config, encv, rangev, object, exit_code, measurements, todo, meas, no_lines, offset,
                   df_empty, params, result, sendv, stats, source, delivery, console, queries>>

\* one pass of the while loop up to the for loop: the chunk query and its result
ChunkQuery ==
    /\ pc = "while"
    /\ ~df_empty
    /\ params' = offset
    /\ chunk_queried' = TRUE
    /\ \E resp \in ChunkResponses(offset, Len(series_rows)) :
          IF resp.shape = "other"
          THEN \* [result], then df.empty raises AttributeError
               /\ Exits(1)
               /\ UNCHANGED <<result, source>>
          ELSE /\ result' = TablesFrom(offset, resp.sizes)
               /\ served_ok' = (served_ok /\ WellServed(offset, Len(series_rows), resp))
               /\ qlog' = IF resp.sizes = <<>> THEN qlog
                          ELSE Append(qlog, [offset |-> offset, sizes |-> resp.sizes])
               /\ pc' = "for"
               /\ UNCHANGED <<exit_code, series_rows, rows_before, handed>>
    /\ UNCHANGED <<config, encv, rangev, shown_done, object, measurements, todo, meas, no_lines, offset, df_empty,
                   field_no, sendv, stats, delivery, console, disc_queries, disc_other,
                   served_keys>>

\* variant of NextOffset: the offset advances by the chunk size
NextOffsetFixed(o, df) == o + ChunkSize

\* variant of NextOffset: the offset advances by the rows that gave a line
NextOffsetByLines(o, df) ==
    o + Cardinality({i \in 1..Len(df.rows) : ~IsNa(df.rows[i][COL_VALUE])})

\* offset += df.shape[0]
NextOffset(o, df) == o + Len(df.rows)

\* variant of Truthy: the empty text is handled like any other
TruthyAlways(text) == TRUE

\* if lines_protocol_str: a str is true unless it is empty
Truthy(text) == text # <<>>

\* variant of UsesWriter: the dry run posts too
UsesWriterAlways(dry) == TRUE

\* if not self.dry_run
UsesWriter(dry) == ~dry

\* variant of GroupLines: the range stops one line early
GroupLinesShort(lines, size) ==
    LET starts == Range(0, Len(lines) - 1, size)
    IN  [k \in 1..Len(starts) |-> Slice(lines, starts[k], starts[k] + size)]

\* variant of GroupLines: each slice runs one line into the next
GroupLinesOverlap(lines, size) ==
    LET starts == Range(0, Len(lines), size)
    IN  [k \in 1..Len(starts) |-> Slice(lines, starts[k], starts[k] + size + 1)]

\* __send_lines_in_chunks: lines[i:i + chunk_size] for i in range(0, len(lines), chunk_size)
GroupLines(lines, size) ==
    LET starts == Range(0, Len(lines), size)
    IN  [k \in 1..Len(starts) |-> Slice(lines, starts[k], starts[k] + size)]

\* __send_lines_in_chunks: the bodies of the write requests, in order
SendGroups(text, size) ==
    LET groups == GroupLines(Split(text, NL), size)
    IN  [k \in 1..Len(groups) |-> Join(<<NL>>, groups[k])]

\* variant of Aborts: a status other than 204 raises
AbortsOnError(status) == status # 204

\* what a response status does to the run: a status other than 204 is only printed
Aborts(status) == FALSE

LineSet(text) == LET ls == Split(text, NL) IN {ls[i] : i \in 1..Len(ls)}

\* the for loop over result is exhausted: back to the while test
ForEnd ==
    /\ pc = "for"
    /\ result = <<>>
    /\ pc' = "while"
    /\ UNCHANGED <<config, encv, rangev, shown_done, object, exit_code, loopv, sendv, stats, source, delivery,
                   console, queries>>

\* one pass of the for loop over result, up to the first write request
ForTable ==
    /\ pc = "for"
    /\ result # <<>>
    /\ LET df == DataFrameOf(meas, Head(result), series_rows, pivot)
           text == GetInfluxdbLines(df, pivot)
       IN  /\ df_empty' = Empty(df)
           /\ IF Empty(df)
              THEN \* break: the tables after this one are not visited
                   /\ result' = <<>>
                   /\ pc' = "while"
                   /\ UNCHANGED <<offset, no_lines, handed, stats, produced, sendv,
                                  n_printed_lines>>
              ELSE /\ result' = Tail(result)
                   /\ offset' = NextOffset(offset, df)
                   /\ handed' = handed \o Head(result)
                   /\ IF Truthy(text)
                      THEN /\ stats' = Increment(stats, text)
                           /\ no_lines' = no_lines + Count(text, NL) + 1
                           /\ produced' = produced \cup LineSet(text)
                           /\ IF UsesWriter(dry_run)
                              THEN /\ lines_protocol_str' = text
                                   /\ chunk_size' = SendChunkSize
                                   /\ send_i' = 0
                                   /\ requests' = <<>>
                                   /\ pc' = "send"
                                   /\ UNCHANGED n_printed_lines
                              ELSE \* print(lines_protocol_str + "\n")
                                   /\ n_printed_lines' = n_printed_lines + Count(text, NL) + 1
                                   /\ pc' = "for"
                                   /\ UNCHANGED sendv
                      ELSE /\ pc' = "for"
                           /\ UNCHANGED <<stats, no_lines, produced, sendv, n_printed_lines>>
    /\ UNCHANGED <<config, encv, rangev, shown_done, object, exit_code, measurements, todo, meas, field_no, params,
                   series_rows, rows_before, served_ok, qlog, posted, accepted, n_posts, n_posted_lines,
                   post_errors, skipped_tables, all_done, queries>>

PostStatuses == {204, 500}

\* one pass of the loop of __send_lines_in_chunks: one requests.post and its answer
Post ==
    /\ pc = "send"
    /\ LET groups == SendGroups(lines_protocol_str, chunk_size)
           chunk == IF send_i < Len(groups) THEN groups[send_i + 1] ELSE <<>>
       IN  \E status \in PostStatuses :
             /\ requests' = Append(requests, [body |-> chunk, status |-> status])
             /\ n_posts' = n_posts + 1
             /\ n_posted_lines' = n_posted_lines + Count(chunk, NL) + 1
             /\ posted' = posted \cup LineSet(chunk)
             /\ accepted' = IF status = 204 THEN accepted \cup LineSet(chunk) ELSE accepted
             /\ post_errors' = IF status # 204 THEN post_errors + 1 ELSE post_errors
             /\ IF Aborts(status) THEN Exits(1) /\ UNCHANGED send_i
                ELSE /\ send_i' = send_i + 1
                     /\ pc' = IF send_i' >= Len(groups) THEN "for" ELSE "send"
                     /\ UNCHANGED exit_code
    /\ UNCHANGED <<config, encv, rangev, shown_done, object, loopv, lines_protocol_str, chunk_size, stats, source,
                   produced, n_printed_lines, skipped_tables, all_done, queries>>

\* requests.post raises (the target cannot be reached): the exception is not caught
PostRaises ==
    /\ pc = "send"
    /\ Exits(1)
    /\ UNCHANGED <<config, encv, rangev, shown_done, object, loopv, sendv, stats, source, delivery, console, queries>>

\* hasattr(self, '__client'): the name in the string is not mangled
DelCloses(a) == "__client" \in a

\* the process ends and the migrator is finalised: __del__
Del ==
    /\ pc = "exit"
    /\ pc' = "ended"
    /\ client' = IF DelCloses(attrs) THEN "closed" ELSE client
    /\ UNCHANGED <<config, encv, rangev, shown_done, attrs, exit_code, loopv, sendv, stats, source, delivery,
                   console, queries>>

Next ==
    \/ InfluxConnect
    \/ ParseDates
    \/ Migrate
    \/ FindAllMeasurements
    \/ NextSeries
    \/ AllDone
    \/ EndSeries
    \/ ChunkQuery
    \/ ForEnd
    \/ ForTable
    \/ Post
    \/ PostRaises
    \/ Del

Spec == Init /\ [][Next]_vars

(***************************************************************************)
(* __send_lines_in_chunks on its own: called with any text of at most      *)
(* MaxSendLines lines and any chunk_size up to MaxSendChunk.               *)
(***************************************************************************)
SendLines == {<<>>, <<"x">>}

SendTexts == {Join(<<NL>>, ls) : ls \in SeqsUpTo(SendLines, MaxSendLines) \ {<<>>}}

InitSend ==
    /\ dry_run = FALSE
    /\ pivot = FALSE
    /\ attrs = {"bucket", "vm_url", "chunksize", "stats", "dry_run", "pivot",
                "_InfluxMigrator__measurement_key"}
    /\ client = "none"
    /\ pc = "send"
    /\ exit_code = -1
    /\ measurements = {}
    /\ todo = {}
    /\ meas = <<>>
    /\ no_lines = 0
    /\ offset = 0
    /\ df_empty = FALSE
    /\ field_no = 0
    /\ params = 0
    /\ result = <<>>
    /\ lines_protocol_str \in SendTexts
    /\ chunk_size \in 1..MaxSendChunk
    /\ send_i = 0
    /\ stats = [bytes |-> 0, lines |-> 0]
    /\ series_rows = <<>>
    /\ rows_before = 0
    /\ served_ok = TRUE
    /\ qlog = <<>>
    /\ handed = <<>>
    /\ requests = <<>>
    /\ produced = {}
    /\ posted = {}
    /\ accepted = {}
    /\ n_posts = 0
    /\ n_posted_lines = 0
    /\ n_printed_lines = 0
    /\ post_errors = 0
    /\ skipped_tables = 0
    /\ disc_queries = 0
    /\ disc_other = FALSE
    /\ served_keys = {}
    /\ chunk_queried = FALSE
    /\ all_done = FALSE
    /\ shown_done = 0
    /\ EncIdle
    /\ RangeIdle

NextSend == Post \/ PostRaises

SpecSend == InitSend /\ [][NextSend]_vars

(***************************************************************************)
(* Properties.                                                             *)
(***************************************************************************)
Zero == [bytes |-> 0, lines |-> 0]

\* the rows the answered chunk queries before the i-th returned
RowsBefore(i) == Sum([j \in 1..(i - 1) |-> Sum(qlog[j].sizes)])

\* the number of lines of a text, as split counts them
NumLines(text) == Len(Split(text, NL))

\* C1: while the source serves the current series in non-empty chunks of at
\* most chunksize rows (and an empty chunk once no row is left), the offsets
\* of the successive chunk queries are 0, k1, k1 + k2, ..., ki the rows of the
\* i-th chunk, and when the series' loop has ended its rows 1..N have been
\* handed to the encoder exactly once each, in order.
C1_Pagination ==
    served_ok =>
        /\ \A i \in 1..Len(qlog) : qlog[i].offset = RowsBefore(i)
        /\ df_empty => handed = [i \in 1..Len(series_rows) |-> i]

\* a series of MaxRows rows was served in three chunks, the last one empty
C1_Witness ==
    /\ served_ok
    /\ df_empty
    /\ Len(series_rows) = MaxRows
    /\ Len(qlog) = 3
    /\ qlog[2].offset < ChunkSize

\* C2: in a dry run no write request is ever issued, and every encoded line
\* went to standard output.
C2_DryRun ==
    dry_run =>
        /\ n_posts = 0
        /\ requests = <<>>
        /\ posted = {}
        /\ pc # "send"
        /\ n_printed_lines = stats.lines

\* a dry run that encoded and printed lines and completed
C2_Witness ==
    /\ dry_run
    /\ all_done
    /\ n_printed_lines >= 2

\* a call of __send_lines_in_chunks has returned
SendReturned == requests # <<>> /\ pc = "for"

\* the sizes of the groups of 25000 lines under a limit of 10000
ExampleSizes ==
    LET groups == GroupLines([i \in 1..25000 |-> <<"x">>], 10000)
    IN  [k \in 1..Len(groups) |-> Len(groups[k])]

\* C3: a call of __send_lines_in_chunks with a text of L >= 1 lines and a
\* limit M >= 1 issues exactly ceil(L / M) write requests, each of at most M
\* lines and each but the last of exactly M lines, whose bodies joined by
\* newlines are the text; 25000 lines under a limit of 10000 make groups of
\* 10000, 10000 and 5000 lines.
C3_Splitting ==
    SendReturned =>
        LET L == NumLines(lines_protocol_str)
            M == chunk_size
        IN  /\ Len(requests) = (L + M - 1) \div M
            /\ \A k \in 1..Len(requests) : NumLines(requests[k].body) <= M
            /\ \A k \in 1..(Len(requests) - 1) : NumLines(requests[k].body) = M
            /\ Join(<<NL>>, [k \in 1..Len(requests) |-> requests[k].body])
                 = lines_protocol_str
            /\ ExampleSizes = <<10000, 10000, 5000>>

\* five lines under a limit of two were sent as groups of 2, 2 and 1 lines
C3_Witness ==
    /\ SendReturned
    /\ NumLines(lines_protocol_str) = 5
    /\ chunk_size = 2
    /\ Len(requests) = 3
    /\ NumLines(requests[3].body) = 1

\* the step is a write request answered with a status other than 204
FailedPost ==
    /\ pc = "send"
    /\ n_posts' = n_posts + 1
    /\ requests'[Len(requests')].status # 204

\* C4: a write request answered with a status other than 204 does not end
\* the run: the call goes on to the next group (the failed group is not posted
\* again, the text is not encoded again) or returns to the loop over the
\* tables, and the offset, the stats and everything the coming chunk queries
\* depend on are what they are after a 204.
C4_FailedPostGoesOn ==
    [][FailedPost =>
        /\ exit_code' = -1
        /\ send_i' = send_i + 1
        /\ pc' = IF send_i + 1 < Len(SendGroups(lines_protocol_str, chunk_size))
                 THEN "send" ELSE "for"
        /\ requests'[Len(requests')].body
             = SendGroups(lines_protocol_str, chunk_size)[send_i + 1]
        /\ UNCHANGED <<loopv, stats, source, produced, lines_protocol_str, chunk_size>>
      ]_vars

\* the first of two groups was refused, the second was sent all the same
C4_Witness ==
    /\ pc = "for"
    /\ Len(requests) = 2
    /\ requests[1].status # 204
    /\ post_errors >= 1

\* C5 as claimed: in a run that is not dry and printed "All done", every line
\* the encoder produced was carried by a write request answered 204.
C5_AtLeastOnce ==
    (all_done /\ ~dry_run) => produced \subseteq accepted

\* C5 as amended: in a run that is not dry and printed "All done", every line
\* the encoder produced was carried by exactly one write request, and the
\* accepted lines are those of the requests answered 204: all of them when no
\* request was answered otherwise.
C5_SentOnce ==
    (all_done /\ ~dry_run) =>
        /\ posted = produced
        /\ n_posted_lines = Cardinality(produced)
        /\ n_posted_lines = stats.lines
        /\ accepted \subseteq produced
        /\ post_errors = 0 => accepted = produced

\* a completed run in which some lines were accepted and some refused
C5_Witness ==
    /\ all_done
    /\ ~dry_run
    /\ post_errors >= 1
    /\ accepted # {}
    /\ accepted # produced

\* C6: once the process has ended after influx_connect succeeded, the client
\* it opened has been closed.
C6_Released ==
    (pc = "ended" /\ client # "none") => client = "closed"

\* C7: when discovery returns the empty set, migrate goes from the discovery
\* straight to "All done": no chunk query, no write request, stats at zero,
\* and the run ends normally.
C7_EmptyDiscovery ==
    (disc_queries = 1 /\ ~disc_other /\ measurements = {}) =>
        /\ pc \in {"loop", "exit", "ended"}
        /\ ~chunk_queried
        /\ n_posts = 0
        /\ stats = Zero
        /\ pc = "loop" => exit_code = -1
        /\ pc # "loop" => all_done /\ exit_code = 0

\* a run over a bucket without series has ended
C7_Witness ==
    /\ disc_queries = 1
    /\ ~disc_other
    /\ measurements = {}
    /\ pc = "ended"

\* the status the process ends with, for the code given to exit
ExitStatus == exit_code % 256

\* C8: a discovery result that is neither a table nor a list of tables ends
\* the run with a status other than zero before any chunk query or write
\* request; a table without the grouping-key column is only skipped, the
\* series of the other tables are all found.
C8_DiscoveryShapes ==
    /\ disc_other =>
          /\ pc \in {"exit", "ended"}
          /\ exit_code = 500
          /\ ExitStatus # 0
          /\ ~chunk_queried
          /\ n_posts = 0
    /\ (disc_queries = 1 /\ ~disc_other) =>
          /\ measurements = served_keys
          /\ exit_code # 500

\* the run ended on a discovery result of an unexpected type
C8_Witness ==
    /\ disc_other
    /\ pc = "ended"
    /\ exit_code = 500

\* a table without the grouping-key column was skipped and the run went on to
\* query the series of another table
C8_SkipWitness ==
    /\ skipped_tables >= 1
    /\ measurements # {}
    /\ chunk_queried

\* C9: migrate called on a migrator that never connected fails before any
\* query or write request, and the stats stay as they were.
C9_NeedsConnection ==
    client = "none" =>
        /\ pc \in {"new", "exit", "ended"}
        /\ pc # "new" => exit_code = 1
        /\ disc_queries = 0
        /\ ~chunk_queried
        /\ n_posts = 0
        /\ stats = Zero

\* migrate was called without a connection and the call failed
C9_Witness ==
    /\ client = "none"
    /\ pc = "exit"
    /\ exit_code = 1

\* the for loop is about to visit a table that has rows, all without a value
AllNullTable ==
    /\ pc = "for"
    /\ result # <<>>
    /\ Head(result) # <<>>
    /\ \A i \in 1..Len(Head(result)) : series_rows[Head(result)[i]] = NullVal

\* C10: a table that has rows but encodes to the empty text causes no write
\* request and no change of the stats; the offset advances by its rows and
\* the loop goes on with the next table; and no write request ever has an
\* empty body.
C10_EmptyBatch ==
    /\ [](\A k \in 1..Len(requests) : requests[k].body # <<>>)
    /\ [][AllNullTable =>
            /\ pc' = "for"
            /\ exit_code' = -1
            /\ ~df_empty'
            /\ result' = Tail(result)
            /\ offset' = offset + Len(Head(result))
            /\ stats' = stats
            /\ no_lines' = no_lines
            /\ n_posts' = n_posts
            /\ requests' = requests
         ]_vars

\* a table of rows without values was passed over, and the next chunk query
\* was issued at the offset after them
C10_Witness ==
    /\ pc = "for"
    /\ handed # <<>>
    /\ \A i \in 1..Len(handed) : series_rows[handed[i]] = NullVal
    /\ params = Len(handed)
    /\ stats = Zero
    /\ n_posts = 0
    /\ ~dry_run

(***************************************************************************)
(* __get_influxdb_lines on its own: one call on a data frame whose values  *)
(* and whose tag column's name are drawn from small alphabets.             *)
(***************************************************************************)
MaxEncRows == 2
MaxTagLen == 2

TAG_COL == <<"k">>
TagAlphabet == {"a", " ", ",", "=", BS}
TagTexts == SeqsUpTo(TagAlphabet, MaxTagLen)

EncValues == {NullVal, StrVal(<<>>), StrVal(<<"s", NL>>), NumVal(<<"1">>), BoolVal(TRUE)}
EncTags == {NullVal, StrVal(<<"a">>), StrVal(<<"a", NL, "b">>)}

\* a frame of the source's columns and one more column, the tag column key
EncFrame(key, cells, pivot_) ==
    [columns |-> SourceColumns(pivot_) \o <<key>>,
     rows |-> [i \in 1..Len(cells) |->
                 [c \in ColSet(SourceColumns(pivot_)) \cup {key} |->
                     IF c = key THEN cells[i][2]
                     ELSE SourceRow(<<"m">>, i, cells[i][1], pivot_)[c]]]]

EncodeFrames(pivot_) ==
    {EncFrame(TAG_COL, cells, pivot_) : cells \in SeqsUpTo(EncValues \X EncTags, MaxEncRows)}
    \cup {EncFrame(key, << <<NumVal(<<"1">>), tagval>> >>, pivot_) :
             key \in TagTexts \ {<<>>},
             tagval \in {NullVal} \cup {StrVal(t) : t \in TagTexts}}

\* every variable of the run but config, pc and lines_protocol_str, as
\* __init__ leaves it
Fresh ==
    /\ attrs = {"bucket", "vm_url", "chunksize", "stats", "dry_run", "pivot",
                "_InfluxMigrator__measurement_key"}
    /\ client = "none"
    /\ exit_code = -1
    /\ measurements = {}
    /\ todo = {}
    /\ meas = <<>>
    /\ no_lines = 0
    /\ offset = 0
    /\ df_empty = FALSE
    /\ field_no = 0
    /\ params = 0
    /\ result = <<>>
    /\ chunk_size = 0
    /\ send_i = 0
    /\ stats = [bytes |-> 0, lines |-> 0]
    /\ series_rows = <<>>
    /\ rows_before = 0
    /\ served_ok = TRUE
    /\ qlog = <<>>
    /\ handed = <<>>
    /\ requests = <<>>
    /\ produced = {}
    /\ posted = {}
    /\ accepted = {}
    /\ n_posts = 0
    /\ n_posted_lines = 0
    /\ n_printed_lines = 0
    /\ post_errors = 0
    /\ skipped_tables = 0
    /\ disc_queries = 0
    /\ disc_other = FALSE
    /\ served_keys = {}
    /\ chunk_queried = FALSE
    /\ all_done = FALSE
    /\ shown_done = 0

InitEncode ==
    /\ dry_run = FALSE
    /\ pivot \in BOOLEAN
    /\ pc = "encode"
    /\ lines_protocol_str = <<>>
    /\ df_arg \in EncodeFrames(pivot)
    /\ esc_key = <<>>
    /\ esc_val = <<>>
    /\ RangeIdle
    /\ Fresh

\* the tag columns the tag loop of a row keeps
KeptTagCols(frame, row) ==
    LET Kept(c) == ~TagSkipped(row, c)
    IN  SelectSeq(GetTagCols(frame.columns), Kept)

\* lines_protocol_str = self.__get_influxdb_lines(df)
Encode ==
    /\ pc = "encode"
    /\ lines_protocol_str' = GetInfluxdbLines(df_arg, pivot)
    /\ LET kept == IF Empty(df_arg) THEN <<>>
                   ELSE KeptTagCols(df_arg, df_arg.rows[Len(df_arg.rows)])
       IN  IF kept = <<>> THEN UNCHANGED <<esc_key, esc_val>>
           ELSE /\ esc_key' = EscKey(kept[Len(kept)])
                /\ esc_val' = EscVal(df_arg.rows[Len(df_arg.rows)][kept[Len(kept)]])
    /\ pc' = "encoded"
    /\ UNCHANGED <<config, rangev, shown_done, object, exit_code, loopv, chunk_size, send_i,
                   requests, stats, source, delivery, console, queries, df_arg>>

NextEncode == Encode

SpecEncode == InitEncode /\ [][NextEncode]_vars

\* the rows of the frame whose field value is neither null nor empty
ValuedRows(frame) ==
    LET Valued(row) == ~(IsNa(row[COL_VALUE]) \/ IsEmptyStr(row[COL_VALUE]))
    IN  SelectSeq(frame.rows, Valued)

\* the newline-separated lines of a batch
BatchLines(text) == IF text = <<>> THEN <<>> ELSE Split(text, NL)

\* C11 as claimed: the batch holds, as newline-separated lines, one line per
\* row whose field value is neither null nor empty, in the rows' order, and
\* none for the other rows, so never more lines than rows, whatever
\* characters the values contain.
C11_OneLinePerRow ==
    pc = "encoded" =>
        LET out == BatchLines(lines_protocol_str)
            kept == ValuedRows(df_arg)
        IN  /\ Len(out) = Len(kept)
            /\ Len(out) <= Len(df_arg.rows)
            /\ \A i \in 1..Len(out) :
                   SubSeq(out[i], Len(out[i]) - Len(Nanos(kept[i][COL_TIME])) + 1, Len(out[i]))
                     = Nanos(kept[i][COL_TIME])


\* the characters the tag escaping puts a backslash before
Specials == {" ", ",", "="}

RECURSIVE Unescape(_)
\* the text without the backslash that precedes each space, comma and equals
Unescape(e) ==
    IF e = <<>> THEN <<>>
    ELSE IF Head(e) = BS /\ Len(e) >= 2 /\ e[2] \in Specials
         THEN <<e[2]>> \o Unescape(SubSeq(e, 3, Len(e)))
    ELSE <<Head(e)>> \o Unescape(Tail(e))

\* e has a backslash right before each space, comma and equals of x
Escaped(x, e) ==
    /\ \A i \in 1..Len(e) : e[i] \in Specials => i > 1 /\ e[i - 1] = BS
    /\ \A c \in Specials : Count(e, c) = Count(x, c)

\* the encoder returned and the last row's tag loop kept a column
TagEscaped ==
    /\ pc = "encoded"
    /\ ~Empty(df_arg)
    /\ KeptTagCols(df_arg, df_arg.rows[Len(df_arg.rows)]) # <<>>

\* the last column the tag loop of the last row kept, and its value's text
LastKey ==
    LET kept == KeptTagCols(df_arg, df_arg.rows[Len(df_arg.rows)])
    IN  kept[Len(kept)]
LastVal == StrOf(df_arg.rows[Len(df_arg.rows)][LastKey])

C13_StatsMonotone ==
    [][/\ stats'.bytes >= stats.bytes
       /\ stats'.lines >= stats.lines]_vars

\* the second series has just begun, with the first one's lines still counted
C13_Witness ==
    /\ pc = "while"
    /\ field_no = 2
    /\ qlog = <<>>
    /\ stats.lines >= 1
    /\ stats.bytes >= 1

(***************************************************************************)
(* The date range of the chunk queries on its own: the passes of migrate's *)
(* while loop build date_range from start_date and end_date, and the       *)
(* source evaluates each query at the instant its clock shows.  Dates are  *)
(* day numbers, instants are hours since the midnight of day 0.            *)
(***************************************************************************)
MaxDay == 2
MaxTicks == 3

\* timedelta(days=1), in hours
DAY == 24
\* range(start: -100d, ...)
BackfillDays == 100

\* datetime.combine(d, datetime.min.time()): the instant d T00:00:00Z
Midnight(d) == d * DAY

DateTerm(d) == [k |-> "date", n |-> Midnight(d)]
DurationTerm(days) == [k |-> "dur", n |-> days]
NowTerm == [k |-> "now", n |-> 0]

\* variant of DateRange: the stop is the midnight that begins the end date
DateRangeEndExcluded(start, end) ==
    IF start # NoDate /\ end # NoDate
    THEN [start |-> DateTerm(start), stop |-> DateTerm(end)]
    ELSE IF start # NoDate
    THEN [start |-> DateTerm(start), stop |-> NoTerm]
    ELSE [start |-> DurationTerm(-BackfillDays), stop |-> NowTerm]

\* the range clause of a pass of the while loop
DateRange(start, end) ==
    IF start # NoDate /\ end # NoDate
    THEN [start |-> DateTerm(start), stop |-> DateTerm(end + 1)]
    ELSE IF start # NoDate
    THEN [start |-> DateTerm(start), stop |-> NoTerm]
    ELSE [start |-> DurationTerm(-BackfillDays), stop |-> NowTerm]

\* the instant a term of a range clause stands for in a query evaluated at
\* the instant at: a duration is relative to at, now() and a missing stop
\* are at
Resolve(term, at) ==
    IF term.k = "date" THEN term.n
    ELSE IF term.k = "dur" THEN at + term.n * DAY
    ELSE at

\* the clock of the source when the run begins
NowStart == Midnight(MaxDay + 1) + 1

InitRange ==
    /\ dry_run = FALSE
    /\ pivot = FALSE
    /\ pc = "range"
    /\ lines_protocol_str = <<>>
    /\ start_date \in {NoDate} \cup 1..MaxDay
    /\ end_date \in {NoDate} \cup 1..MaxDay
    /\ now = NowStart
    /\ date_range = [start |-> NoTerm, stop |-> NoTerm]
    /\ ranges = {}
    /\ EncIdle
    /\ Fresh

\* one pass of the while loop up to its chunk query: date_range is built and
\* the query is evaluated by the source at the instant now
RangeQuery ==
    /\ pc = "range"
    /\ date_range' = DateRange(start_date, end_date)
    /\ ranges' = ranges \cup {[clause |-> date_range',
                                start |-> Resolve(date_range'.start, now),
                                stop |-> Resolve(date_range'.stop, now),
                                at |-> now]}
    /\ UNCHANGED <<config, encv, shown_done, object, control, loopv, sendv, stats, source,
                   delivery, console, queries, start_date, end_date, now>>

\* time passes between two queries
Tick ==
    /\ pc = "range"
    /\ now < NowStart + MaxTicks
    /\ now' = now + 1
    /\ UNCHANGED <<config, encv, shown_done, object, control, loopv, sendv, stats, source,
                   delivery, console, queries, start_date, end_date, date_range, ranges>>

NextRange == RangeQuery \/ Tick

SpecRange == InitRange /\ [][NextRange]_vars

\* the range of a query follows the policy: both dates given, from the
\* midnight that begins the start date up to the midnight that ends the end
\* date; only the start date, from its midnight with an open end (up to the
\* instant of the query); neither, the 100 days that end at the instant of
\* the query
Policy(r) ==
    /\ start_date # NoDate /\ end_date # NoDate =>
          r.start = start_date * DAY /\ r.stop = (end_date + 1) * DAY
    /\ start_date # NoDate /\ end_date = NoDate =>
          r.start = start_date * DAY /\ r.stop = r.at
    /\ start_date = NoDate /\ end_date = NoDate =>
          r.start = r.at - 100 * DAY /\ r.stop = r.at

\* C14 as claimed: every chunk query's range follows the policy, and the
\* same resolved range is used for every chunk query of the run.
C14_SameRange ==
    /\ \A r \in ranges : Policy(r)
    /\ \A r1, r2 \in ranges : r1.start = r2.start /\ r1.stop = r2.stop

\* C14: every chunk query's range follows the policy and every chunk query
\* carries the same range clause; the resolved range is the same for every
\* query when both dates are given, and its start is the same when only the
\* start date is given.
C14_RangePerQuery ==
    /\ \A r \in ranges : Policy(r) /\ r.clause = date_range
    /\ \A r1, r2 \in ranges :
          /\ start_date # NoDate => r1.start = r2.start
          /\ start_date # NoDate /\ end_date # NoDate => r1.stop = r2.stop

\* both dates given, two queries evaluated at different instants
C14_Witness ==
    /\ start_date = 1
    /\ end_date = 2
    /\ \E r1, r2 \in ranges : r1.at # r2.at /\ r1.stop = Midnight(3)

\* the latest answered chunk query of the current series
LastAnswer == qlog[Len(qlog)]

\* an answer held an empty table
HasEmptyTable(answer) == \E i \in 1..Len(answer.sizes) : answer.sizes[i] = 0

\* C15: at the while test the series' loop is over exactly when the latest
\* answer held an empty table: tables of fewer rows than the limit do not
\* end it, and the loop then issues another chunk query, at the offset
\* advanced by the rows of that answer; once an empty table was received the
\* loop issues no further chunk query for the series and migrate goes to the
\* next series.
C15_EndOnlyOnEmpty ==
    /\ [](pc = "while" =>
            /\ df_empty <=> (qlog # <<>> /\ HasEmptyTable(LastAnswer))
            /\ ~df_empty /\ qlog # <<>> =>
                  offset = LastAnswer.offset + Sum(LastAnswer.sizes))
    /\ [][pc = "while" /\ ~df_empty =>
            /\ chunk_queried'
            /\ params' = offset
            /\ pc' \in {"for", "exit"}]_vars
    /\ [][pc = "while" /\ df_empty =>
            /\ pc' = "loop"
            /\ UNCHANGED <<params, qlog, result, offset>>]_vars

\* a chunk of one row under a limit of two was followed by a chunk query at
\* offset 1, whose empty answer ended the series
C15_Witness ==
    /\ pc = "while"
    /\ df_empty
    /\ Len(qlog) = 2
    /\ qlog[1].sizes = <<1>>
    /\ 1 < ChunkSize
    /\ qlog[2] = [offset |-> 1, sizes |-> <<0>>]

\* C16: the first chunk query of every series is at offset 0, whatever
\* offset the previous series reached, and within one series the offset
\* never decreases, nor do the offsets of its successive chunk queries.
C16_CursorPerSeries ==
    /\ [][pc = "loop" /\ pc' = "while" => offset' = 0]_vars
    /\ [][pc = "while" /\ pc' # "loop" /\ handed = <<>> => params' = 0]_vars
    /\ [][pc # "loop" => offset' >= offset]_vars
    /\ [](/\ qlog # <<>> => qlog[1].offset = 0
          /\ \A i, j \in 1..Len(qlog) : i <= j => qlog[i].offset <= qlog[j].offset)

\* the first series was read up to an offset of at least 1, and the first
\* chunk query of the second series was at offset 0
C16_Witness ==
    /\ field_no = 2
    /\ rows_before >= 1
    /\ stats.lines >= 1
    /\ Len(qlog) = 1
    /\ qlog[1].offset = 0
    /\ params = 0

\* a table of result is being handled, or its lines are being sent
AtWork == (pc = "for" /\ result # <<>>) \/ pc = "send"

\* the steps other than the handling of a table and the write requests
Light ==
    InfluxConnect \/ ParseDates \/ Migrate \/ FindAllMeasurements \/ NextSeries
    \/ AllDone \/ EndSeries \/ ChunkQuery \/ ForEnd \/ Del

\* the run as the interpreter executes it: a step that can be taken is
\* taken, and neither the handling of a table nor a write request lasts for
\* ever
SpecLive == Spec /\ WF_vars(Light) /\ []<>(~AtWork)

\* C17 as claimed: once the series are discovered, migrate eventually prints
\* "All done", every discovered series processed once, whatever the write
\* requests are answered (a run ended by an exception of a collaborator, exit
\* status 1, is left aside).
C17_ReachesDone ==
    (pc = "loop") ~>
        \/ all_done /\ todo = {} /\ field_no = Cardinality(measurements) + 1
        \/ exit_code = 1

\* the rows the answered chunk queries of the current series returned
RowsReturned == RowsBefore(Len(qlog) + 1)

\* C18 as claimed: when the loop over the tables of an answer is over (the
\* while test, or the step to the next series), every row of every table the
\* chunk queries returned has been handed to the encoder, tables that follow
\* an empty table included, and the offset counts each returned row once.
C18_AllTablesHanded ==
    pc \in {"while", "loop"} =>
        /\ Len(handed) = RowsReturned
        /\ offset = RowsReturned

\* the step is a chunk query
ChunkQueried == pc = "while" /\ pc' # "loop"

\* C19: the offset is at every moment of a series' loop the number of rows
\* of the series handed to the encoder so far, and it is the offset every
\* chunk query passes, in a dry run or not, whatever rows the encoder
\* dropped and whatever the write requests were answered.
C19_OffsetIsRowsHanded ==
    /\ [](pc \in {"while", "for", "send"} => offset = Len(handed))
    /\ [][ChunkQueried => params' = Len(handed)]_vars

\* a chunk query at offset 1 in a run that is not dry, after a refused write
\* request; and one in a dry run after a row that gave no line
C19_Witness ==
    /\ pc = "for"
    /\ result # <<>>
    /\ params = 1
    /\ handed = <<1>>
    /\ \/ ~dry_run /\ post_errors >= 1
       \/ dry_run /\ stats.lines = 0

\* every table handled so far has been handled to its end
ChunkProcessed == pc \in {"while", "for", "loop"} \/ all_done

\* the line counts the progress messages showed last for each series, summed
ShownTotal == shown_done + (IF pc \in {"while", "for"} THEN no_lines ELSE 0)

\* C20: once a chunk has been processed, stats.lines is the sum over the
\* series of the line counter their progress messages show; in a run that is
\* not dry it is the number of lines the write requests issued so far
\* carried, accepted or not, and in a dry run the number of lines printed,
\* no write request being issued.
C20_Accounting ==
    ChunkProcessed =>
        /\ stats.lines = ShownTotal
        /\ ~dry_run => stats.lines = n_posted_lines /\ n_printed_lines = 0
        /\ dry_run => stats.lines = n_printed_lines /\ n_posted_lines = 0

\* a run that is not dry ended with two lines sent for two series, one of
\* the write requests refused
C20_Witness ==
    /\ ~dry_run
    /\ all_done
    /\ field_no = 3
    /\ stats.lines = 2
    /\ n_posted_lines = 2
    /\ post_errors >= 1

====
